---- MODULE Spec2Model ----
(***************************************************************************)
(* Model of synthaser's domain-hit filtering (synthaser/results.py) and    *)
(* rule-graph classification (synthaser/classify.py).                      *)
(*                                                                         *)
(* A hit (models.Domain) is a record                                       *)
(*   [id, type, domain, start, end, evalue]                                *)
(* where id stands for the identity of the Python object.  Python indices  *)
(* are 0-based, sequences here are 1-based: Python's domains[i] is         *)
(* domains[i + 1] below.                                                   *)
(*                                                                         *)
(* Thresholds are floats in the source (0.2, 0.9, 0.5, 0.1).  They are     *)
(* kept as exact fractions: for every integer operand below 1200 the       *)
(* comparison computed in IEEE doubles and the comparison computed in      *)
(* exact arithmetic agree, so k >= 0.2 * n is written 10 * k >= 2 * n.     *)
(***************************************************************************)
EXTENDS Integers, Sequences, FiniteSets, TLC

\* ------------------------------------------------------------------------
\* Bounds
\* ------------------------------------------------------------------------
MaxHits == 3

\* ------------------------------------------------------------------------
\* Configuration tables of ResultParser
\* ------------------------------------------------------------------------
Families == {"PP-binding", "Condensation", "NRPS-para261", "KR"}

default_domains ==
    ("PP-binding" :> "ACP") @@ ("Condensation" :> "C") @@
    ("NRPS-para261" :> "E") @@ ("KR" :> "KR")

pssm_lengths ==
    ("PP-binding" :> 67) @@ ("Condensation" :> 455) @@
    ("NRPS-para261" :> 153) @@ ("KR" :> 180)

\* ------------------------------------------------------------------------
\* Inputs: the hits a CD-Search table can hold for one query
\* ------------------------------------------------------------------------
Shape(d, s, e, ev) == [domain |-> d, start |-> s, end |-> e, evalue |-> ev]

HitPool ==
    { Shape("PP-binding", 0, 30, 0),    Shape("PP-binding", 0, 30, 1),
      Shape("PP-binding", 40, 70, 0),   Shape("PP-binding", 30, 40, 0),
      Shape("PP-binding", 90, 110, 0),
      Shape("Condensation", 0, 100, 1), Shape("Condensation", 0, 100, 0),
      Shape("Condensation", 10, 110, 0),
      Shape("NRPS-para261", 60, 100, 0), Shape("NRPS-para261", 60, 100, 1),
      Shape("NRPS-para261", 100, 140, 1),
      Shape("KR", 90, 200, 1) }

\* parse_row: the type is looked up from the family, the rest is copied
parse_row(shape, ident) ==
    [id |-> ident, type |-> default_domains[shape.domain],
     domain |-> shape.domain, start |-> shape.start, end |-> shape.end,
     evalue |-> shape.evalue]

HitLists ==
    UNION { { [i \in 1..n |-> parse_row(f[i], i)] : f \in [1..n -> HitPool] }
            : n \in 0..MaxHits }

\* hits that lie apart from each other: fragments of one family that a
\* merge joins, and a C hit followed by an E hit
MaxFragments == 4

FragmentPool ==
    { Shape("PP-binding", 0, 30, 0),    Shape("PP-binding", 40, 70, 0),
      Shape("PP-binding", 200, 230, 0), Shape("PP-binding", 240, 270, 0),
      Shape("Condensation", 300, 700, 0),
      Shape("NRPS-para261", 710, 800, 0),
      Shape("KR", 900, 1100, 0) }

FragmentLists ==
    UNION { { [i \in 1..n |-> parse_row(f[i], i)] : f \in [1..n -> FragmentPool] }
            : n \in 0..MaxFragments }

\* overlap thresholds in tenths: 0.2 (results.py default), 0.9 (docstring)
Thresholds == {2, 9}

\* ------------------------------------------------------------------------
\* Helpers
\* ------------------------------------------------------------------------
Max(a, b) == IF a >= b THEN a ELSE b
Min(a, b) == IF a <= b THEN a ELSE b

\* Domain.__len__
DomainLen(d) == d.end - d.start

\* Domain.__eq__: equality of type, domain, start and end (not identity)
DomainEq(a, b) ==
    /\ a.type = b.type
    /\ a.domain = b.domain
    /\ a.start = b.start
    /\ a.end = b.end

Ids(seq) == { seq[i].id : i \in 1..Len(seq) }

RECURSIVE Flatten(_)
Flatten(seqs) ==
    IF seqs = << >> THEN << >> ELSE Head(seqs) \o Flatten(Tail(seqs))

\* list.sort / sorted with a key: stable, ascending
RECURSIVE InsertByStart(_, _)
InsertByStart(sorted, d) ==
    IF sorted = << >> THEN << d >>
    ELSE IF sorted[Len(sorted)].start <= d.start THEN Append(sorted, d)
    ELSE Append(InsertByStart(SubSeq(sorted, 1, Len(sorted) - 1), d),
                sorted[Len(sorted)])

\* mutant: the list is left in the order given
SortByStart_Unsorted(seq) == seq

RECURSIVE SortByStart(_)
SortByStart(seq) ==
    IF seq = << >> THEN << >>
    ELSE InsertByStart(SortByStart(SubSeq(seq, 1, Len(seq) - 1)), seq[Len(seq)])

RECURSIVE InsertByEvalue(_, _)
InsertByEvalue(sorted, d) ==
    IF sorted = << >> THEN << d >>
    ELSE IF sorted[Len(sorted)].evalue <= d.evalue THEN Append(sorted, d)
    ELSE Append(InsertByEvalue(SubSeq(sorted, 1, Len(sorted) - 1), d),
                sorted[Len(sorted)])

RECURSIVE SortByEvalue(_)
SortByEvalue(seq) ==
    IF seq = << >> THEN << >>
    ELSE InsertByEvalue(SortByEvalue(SubSeq(seq, 1, Len(seq) - 1)), seq[Len(seq)])

\* del filtered[i]  (i is the 1-based position)
DeleteAt(seq, i) == SubSeq(seq, 1, i - 1) \o SubSeq(seq, i + 1, Len(seq))

\* ------------------------------------------------------------------------
\* hits_overlap(a, b, threshold)
\* ------------------------------------------------------------------------
Overlap(a, b) == Max(0, Min(a.end, b.end) - Max(a.start, b.start))

hits_overlap(a, b, threshold) ==
    LET overlap == Overlap(a, b)
    IN  \/ 10 * overlap >= threshold * (a.end - a.start)
        \/ 10 * overlap >= threshold * (b.end - b.start)

\* ------------------------------------------------------------------------
\* group_overlapping_hits(domains, threshold): the list of yielded groups.
\* domains is already sorted here; the caller-visible sort is part of the
\* actions below.
\* ------------------------------------------------------------------------
\* mutant: the group that reaches the end of the list is not yielded
RECURSIVE GroupFor_NoFinalYield(_, _, _, _, _, _)
GroupFor_NoFinalYield(ds, threshold, i, j, group, out) ==
    IF j > Len(ds) THEN [group |-> group, out |-> out]
    ELSE IF hits_overlap(ds[i], ds[j], threshold)
         THEN GroupFor_NoFinalYield(ds, threshold, i, j + 1,
                                    Append(group, ds[j]), out)
         ELSE [group |-> group, out |-> Append(out, group)]

\* mutant: a hit is compared with the hit before it, not with the first
\* member of the group
RECURSIVE GroupFor_Chained(_, _, _, _, _, _)
GroupFor_Chained(ds, threshold, i, j, group, out) ==
    IF j > Len(ds) THEN [group |-> group, out |-> out]
    ELSE IF hits_overlap(ds[j - 1], ds[j], threshold)
         THEN GroupFor_Chained(ds, threshold, i, j + 1, Append(group, ds[j]),
                               IF j = Len(ds)
                               THEN Append(out, Append(group, ds[j]))
                               ELSE out)
         ELSE [group |-> group, out |-> Append(out, group)]

\* the inner for loop: j runs over the hits after the current one
RECURSIVE GroupFor(_, _, _, _, _, _)
GroupFor(ds, threshold, i, j, group, out) ==
    IF j > Len(ds) THEN [group |-> group, out |-> out]
    ELSE IF hits_overlap(ds[i], ds[j], threshold)
         THEN LET g == Append(group, ds[j])
              IN  GroupFor(ds, threshold, i, j + 1, g,
                           IF j = Len(ds) THEN Append(out, g) ELSE out)
         ELSE [group |-> group, out |-> Append(out, group)]

\* the outer while loop
RECURSIVE GroupWhile(_, _, _, _)
GroupWhile(ds, threshold, i, out) ==
    IF i > Len(ds) THEN out
    ELSE IF i = Len(ds) THEN Append(out, << ds[i] >>)
    ELSE LET r == GroupFor(ds, threshold, i, i + 1, << ds[i] >>, out)
         IN  GroupWhile(ds, threshold, i + Len(r.group), r.out)

group_overlapping_hits(ds, threshold) ==
    GroupWhile(SortByStart(ds), threshold, 1, << >>)

\* ------------------------------------------------------------------------
\* ResultParser.special_rules: one rule, keyed on "E"
\* ------------------------------------------------------------------------
\* mutant: the two hits are taken in the wrong roles
special_rule_E_Swapped(a, b) ==
    DomainLen(a) > DomainLen(b) /\ a.type = "E" /\ b.type = "C"

special_rule_E(a, b) ==
    DomainLen(a) > DomainLen(b) /\ a.type = "C" /\ b.type = "E"

\* ------------------------------------------------------------------------
\* ResultParser.filter_domain_group(group)
\* ------------------------------------------------------------------------
\* mutant: the group is ranked in descending order
filter_domain_group_Reversed(group) ==
    LET ranked    == SortByEvalue(group)
        container == ranked[Len(ranked)]
        others    == SubSeq(ranked, 1, Len(ranked) - 1)
    IN  IF \E k \in 1..Len(others) : special_rule_E(container, others[k])
        THEN [container EXCEPT !.type = "E"]
        ELSE container

\* mutant: the rule is tested on the container alone, without a partner
filter_domain_group_Unpaired(group) ==
    LET ranked    == SortByEvalue(group)
        container == Head(ranked)
    IN  IF container.type = "C"
        THEN [container EXCEPT !.type = "E"]
        ELSE container

filter_domain_group(group) ==
    LET ranked    == SortByEvalue(group)
        container == Head(ranked)
        others    == Tail(ranked)
    IN  IF \E k \in 1..Len(others) : special_rule_E(container, others[k])
        THEN [container EXCEPT !.type = "E"]
        ELSE container

\* ------------------------------------------------------------------------
\* ResultParser.detect_fragmented_domain(one, two), default arguments
\* coverage_pct = 0.5 and tolerance_pct = 0.1
\* ------------------------------------------------------------------------
\* mutant: neither the lengths of the two hits nor the upper end of the
\* tolerance window are tested
detect_fragmented_domain_Loose(one, two) ==
    LET pssm_length == pssm_lengths[one.domain]
        one_length  == DomainLen(one)
        two_length  == DomainLen(two)
    IN  /\ 9 * pssm_length <= 10 * (two.end - one.start)
        /\ 2 * (one_length + two_length) > pssm_length


detect_fragmented_domain(one, two) ==
    LET pssm_length == pssm_lengths[one.domain]
        one_length  == DomainLen(one)
        two_length  == DomainLen(two)
    IN  /\ 2 * one_length < pssm_length
        /\ 2 * two_length < pssm_length
        /\ 9 * pssm_length <= 10 * (two.end - one.start)
        /\ 10 * (two.end - one.start) <= 11 * pssm_length
        /\ 2 * (one_length + two_length) > pssm_length

\* ------------------------------------------------------------------------
\* ResultParser.filter_domains(domains)
\* ------------------------------------------------------------------------
\* the list comprehension over the groups
RECURSIVE ResolveGroups(_)
ResolveGroups(groups) ==
    IF groups = << >> THEN << >>
    ELSE << filter_domain_group(Head(groups)) >> \o ResolveGroups(Tail(groups))

\* mutant: a merge moves the start of the left hit instead of its end
RECURSIVE MergeWhile_MovesStart(_, _, _)
MergeWhile_MovesStart(filtered, i, total) ==
    IF ~(i < total) THEN [raised |-> FALSE, filtered |-> filtered]
    ELSE IF i + 1 = total THEN [raised |-> FALSE, filtered |-> filtered]
    ELSE IF Len(filtered) < i + 1 THEN [raised |-> TRUE, filtered |-> filtered]
    ELSE IF /\ filtered[i].domain = filtered[i + 1].domain
            /\ detect_fragmented_domain(filtered[i], filtered[i + 1])
         THEN MergeWhile_MovesStart(
                  DeleteAt([filtered EXCEPT ![i].start = filtered[i + 1].start],
                           i + 1),
                  i, total)
         ELSE IF special_rule_E(filtered[i], filtered[i + 1])
         THEN MergeWhile_MovesStart(
                  DeleteAt([filtered EXCEPT ![i].type = "E"], i + 1),
                  i + 1, total)
         ELSE MergeWhile_MovesStart(filtered, i + 1, total)

\* the while loop; i and total are the Python values.  The slice
\* filtered[i - 1 : i + 1] is unpacked into two names, which raises
\* ValueError when it holds fewer than two hits.
RECURSIVE MergeWhile(_, _, _)
MergeWhile(filtered, i, total) ==
    IF ~(i < total) THEN [raised |-> FALSE, filtered |-> filtered]
    ELSE IF i + 1 = total THEN [raised |-> FALSE, filtered |-> filtered]
    ELSE IF Len(filtered) < i + 1 THEN [raised |-> TRUE, filtered |-> filtered]
    ELSE LET previous == filtered[i]
             current  == filtered[i + 1]
         IN  IF /\ previous.domain = current.domain
                /\ detect_fragmented_domain(previous, current)
             THEN MergeWhile(
                      DeleteAt([filtered EXCEPT ![i].end = current.end], i + 1),
                      i, total)
             ELSE IF special_rule_E(previous, current)
             THEN MergeWhile(
                      DeleteAt([filtered EXCEPT ![i].type = "E"], i + 1),
                      i + 1, total)
             ELSE MergeWhile(filtered, i + 1, total)

MergePass(filtered) == MergeWhile(filtered, 1, Len(filtered))

\* mutant: the short hits are kept
FinalFilter_KeepAll(filtered) == filtered

\* the final list comprehension
FinalFilter(filtered) ==
    SelectSeq(filtered,
              LAMBDA d : 5 * DomainLen(d) > pssm_lengths[d.domain])

\* the whole call; the intermediate lists are kept for the properties
filter_domains(ds) ==
    LET groups   == group_overlapping_hits(ds, 2)
        resolved == ResolveGroups(groups)
        merge    == MergePass(resolved)
    IN  [groups   |-> groups,
         resolved |-> resolved,
         merged   |-> merge.filtered,
         raised   |-> merge.raised,
         result   |-> IF merge.raised THEN << >> ELSE FinalFilter(merge.filtered)]

\* the caller's list after the call: sorted in place, and holding the same
\* objects as the filtered list, so the changes made to them show (also on
\* a hit that the while loop deleted after its group had retyped it)
AfterCall(ds, resolved, merged) ==
    LET sorted == SortByStart(ds)
    IN  [k \in 1..Len(sorted) |->
            IF \E m \in 1..Len(merged) : merged[m].id = sorted[k].id
            THEN merged[CHOOSE m \in 1..Len(merged) : merged[m].id = sorted[k].id]
            ELSE IF \E m \in 1..Len(resolved) : resolved[m].id = sorted[k].id
            THEN resolved[CHOOSE m \in 1..Len(resolved) :
                              resolved[m].id = sorted[k].id]
            ELSE sorted[k]]

\* ------------------------------------------------------------------------
\* Rule.evaluate(conditions)
\*
\* The evaluator string is a sequence of symbols: the digit characters, the
\* blank, and the words "and", "or", "not", which str.replace can never
\* split because str(idx) holds digits only.  str(True) and str(False) are
\* the symbols "True" and "False".
\* ------------------------------------------------------------------------
DigitChars == << "0", "1", "2", "3", "4", "5", "6", "7", "8", "9" >>

IsDigit(c) == \E k \in 1..Len(DigitChars) : DigitChars[k] = c

\* str(idx)
RECURSIVE Str(_)
Str(n) ==
    IF n < 10 THEN << DigitChars[n + 1] >>
    ELSE Append(Str(n \div 10), DigitChars[(n % 10) + 1])

\* str.replace(old, new): every non-overlapping occurrence, left to right
RECURSIVE Replace(_, _, _)
Replace(s, old, new) ==
    IF Len(s) < Len(old) THEN s
    ELSE IF SubSeq(s, 1, Len(old)) = old
         THEN << new >> \o Replace(SubSeq(s, Len(old) + 1, Len(s)), old, new)
         ELSE << Head(s) >> \o Replace(Tail(s), old, new)

\* mutant: the positions are replaced from the lowest up
RECURSIVE Substitute_Ascending(_, _, _)
Substitute_Ascending(evaluator, conditions, n) ==
    IF n = 0 THEN evaluator
    ELSE Replace(Substitute_Ascending(evaluator, conditions, n - 1),
                 Str(n - 1), IF conditions[n] THEN "True" ELSE "False")

\* for idx, condition in reversed(list(enumerate(conditions)))
RECURSIVE Substitute(_, _, _)
Substitute(evaluator, conditions, n) ==
    IF n = 0 THEN evaluator
    ELSE Substitute(
             Replace(evaluator, Str(n - 1),
                     IF conditions[n] THEN "True" ELSE "False"),
             conditions, n - 1)

\* eval(): the expressions are flat (not / and / or, no parentheses).
\* Blank-separated runs of symbols are the tokens of the expression.
RECURSIVE Runs(_, _)
Runs(s, cur) ==
    IF s = << >> THEN (IF cur = << >> THEN << >> ELSE << cur >>)
    ELSE IF Head(s) = " "
         THEN (IF cur = << >> THEN Runs(Tail(s), << >>)
               ELSE << cur >> \o Runs(Tail(s), << >>))
         ELSE Runs(Tail(s), Append(cur, Head(s)))

\* a token: an operator, a truthy or falsy literal, a name that is not
\* defined (NameError when it is evaluated), or no token at all
Token(run) ==
    IF Len(run) = 1 /\ run[1] \in {"and", "or", "not"} THEN run[1]
    ELSE IF run = << "True" >> THEN "T"
    ELSE IF run = << "False" >> THEN "F"
    ELSE IF \A k \in 1..Len(run) : IsDigit(run[k])
         THEN IF \A k \in 1..Len(run) : run[k] = "0" THEN "F"
              ELSE IF Len(run) > 1 /\ run[1] = "0" THEN "SyntaxError"
              ELSE "T"
    ELSE IF ~IsDigit(run[1]) THEN "NameError"
    ELSE "SyntaxError"

Tokens(s) == LET runs == Runs(s, << >>)
             IN  [k \in 1..Len(runs) |-> Token(runs[k])]

\* (not)* atom ((and | or) (not)* atom)*
RECURSIVE WellFormed(_, _)
WellFormed(toks, wantAtom) ==
    IF toks = << >> THEN ~wantAtom
    ELSE LET t == Head(toks)
         IN  IF t = "SyntaxError" THEN FALSE
             ELSE IF wantAtom
                  THEN IF t = "not" THEN WellFormed(Tail(toks), TRUE)
                       ELSE IF t \in {"T", "F", "NameError"}
                            THEN WellFormed(Tail(toks), FALSE)
                       ELSE FALSE
                  ELSE IF t \in {"and", "or"} THEN WellFormed(Tail(toks), TRUE)
                       ELSE FALSE

Ok(v) == [status |-> "ok", value |-> v]
Raise(e) == [status |-> e, value |-> FALSE]

\* not_test: (not)* atom, returns the value and the rest of the tokens
RECURSIVE EvalNot(_)
EvalNot(toks) ==
    IF Head(toks) = "not"
    THEN LET r == EvalNot(Tail(toks))
         IN  [r EXCEPT !.res = IF r.res.status = "ok"
                                THEN Ok(~r.res.value) ELSE r.res]
    ELSE [res  |-> IF Head(toks) = "NameError" THEN Raise("NameError")
                   ELSE Ok(Head(toks) = "T"),
          rest |-> Tail(toks)]

\* skips a not_test without evaluating it
RECURSIVE SkipNot(_)
SkipNot(toks) ==
    IF Head(toks) = "not" THEN SkipNot(Tail(toks)) ELSE Tail(toks)

\* and_test: not_test (and not_test)*, short-circuit on a falsy operand
RECURSIVE SkipAnd(_)
SkipAnd(toks) ==
    LET rest == SkipNot(toks)
    IN  IF rest # << >> /\ Head(rest) = "and" THEN SkipAnd(Tail(rest))
        ELSE rest

RECURSIVE EvalAnd(_)
EvalAnd(toks) ==
    LET r == EvalNot(toks)
    IN  IF r.rest = << >> \/ Head(r.rest) # "and" THEN r
        ELSE IF r.res.status # "ok" THEN r
        ELSE IF ~r.res.value
             THEN [res |-> r.res, rest |-> SkipAnd(Tail(r.rest))]
        ELSE EvalAnd(Tail(r.rest))

\* or_test: and_test (or and_test)*, short-circuit on a truthy operand
RECURSIVE EvalOr(_)
EvalOr(toks) ==
    LET r == EvalAnd(toks)
    IN  IF r.rest = << >> THEN r.res
        ELSE IF r.res.status # "ok" THEN r.res
        ELSE IF r.res.value THEN r.res
        ELSE EvalOr(Tail(r.rest))

PyEval(s) ==
    LET toks == Tokens(s)
    IN  IF ~WellFormed(toks, TRUE) THEN Raise("SyntaxError")
        ELSE EvalOr(toks)

evaluate(rule, conditions) ==
    PyEval(Substitute(rule.evaluator, conditions, Len(conditions)))

\* ------------------------------------------------------------------------
\* Rule: [name, rename, domains, filters, evaluator].  The dicts rename and
\* filters are sets of <<key, value>> pairs.
\* ------------------------------------------------------------------------
Keys(dict) == { p[1] : p \in dict }
Get(dict, key) == (CHOOSE p \in dict : p[1] = key)[2]

\* Rule.valid_family(domain)
valid_family(rule, domain) ==
    IF domain.type \in Keys(rule.filters)
    THEN domain.domain \in Get(rule.filters, domain.type)
    ELSE TRUE

\* "domain in seen": list membership, decided by Domain.__eq__
InSeen(domain, seen) == \E k \in 1..Len(seen) : DomainEq(seen[k], domain)

\* the inner loop of satisfied_by: position of the first hit that is not
\* in seen and matches rule_domain, or 0
FirstMatch(rule, rule_domain, ds, seen) ==
    LET matches == { k \in 1..Len(ds) :
                        /\ ~InSeen(ds[k], seen)
                        /\ ds[k].type = rule_domain
                        /\ valid_family(rule, ds[k]) }
    IN  IF matches = {} THEN 0
        ELSE CHOOSE k \in matches : \A m \in matches : k <= m

\* the outer loop of satisfied_by: one condition per required type
RECURSIVE Conditions(_, _, _, _, _)
Conditions(rule, ds, r, seen, conditions) ==
    IF r > Len(rule.domains) THEN conditions
    ELSE LET k == FirstMatch(rule, rule.domains[r], ds, seen)
         IN  IF k = 0
             THEN Conditions(rule, ds, r + 1, seen, Append(conditions, FALSE))
             ELSE Conditions(rule, ds, r + 1, Append(seen, ds[k]),
                             Append(conditions, TRUE))

\* Rule.satisfied_by(domains)
satisfied_by(rule, ds) ==
    LET conditions == Conditions(rule, ds, 1, << >>, << >>)
    IN  [conditions |-> conditions, res |-> evaluate(rule, conditions)]

\* Rule.rename_domains(domains).  self.rename[domain] is a lookup with the
\* Domain object as key; Domain defines __eq__ and no __hash__, so the
\* lookup raises TypeError for the first hit whose type is a key.
RECURSIVE RenameFrom(_, _, _)
RenameFrom(rule, ds, k) ==
    IF k > Len(ds) THEN [raised |-> FALSE, domains |-> ds]
    ELSE IF ds[k].type \in Keys(rule.rename)
         THEN [raised |-> TRUE, domains |-> ds]
         ELSE RenameFrom(rule, ds, k + 1)

rename_domains(rule, ds) ==
    IF rule.rename = {} THEN [raised |-> FALSE, domains |-> ds]
    ELSE RenameFrom(rule, ds, 1)

\* ------------------------------------------------------------------------
\* _traverse_graph(graph, rules, domains, classifiers)
\*
\* A graph is a list  [kind |-> "list", nodes |-> <<node, ...>>]  or a dict
\* [kind |-> "dict", items |-> <<[title, children], ...>>];  a node of a
\* list is a dict or a plain name  [kind |-> "name", title |-> name].
\*
\* The traversal state st holds the classifiers, the hits, whether an
\* exception has left the traversal, and a log with one entry per
\* satisfied_by call: the sibling level (name of the parent rule, "" at the
\* top), the rule, its conditions and its outcome.
\* ------------------------------------------------------------------------
RuleOf(rules, name) == CHOOSE r \in rules : r.name = name

\* the log entry of one satisfied_by call
LogEntry(name, level, sat) ==
    [level |-> level, rule |-> name, conditions |-> sat.conditions,
     status |-> sat.res.status,
     satisfied |-> sat.res.status = "ok" /\ sat.res.value]

\* mutant: the name is appended whether or not the rule is satisfied
Outcome_AppendsAlways(name, st, sat, ren) ==
    [satisfied |-> sat.res.status = "ok" /\ sat.res.value,
     st |-> IF sat.res.status # "ok" THEN [st EXCEPT !.raised = TRUE]
            ELSE IF ~sat.res.value
                 THEN [st EXCEPT !.classifiers = Append(@, name)]
            ELSE IF ren.raised THEN [st EXCEPT !.raised = TRUE]
            ELSE [st EXCEPT !.domains = ren.domains,
                            !.classifiers = Append(@, name)]]

\* mutant: an accepted name is appended twice
Outcome_AppendsTwice(name, st, sat, ren) ==
    [satisfied |-> sat.res.status = "ok" /\ sat.res.value,
     st |-> IF sat.res.status # "ok" THEN [st EXCEPT !.raised = TRUE]
            ELSE IF ~sat.res.value THEN st
            ELSE IF ren.raised THEN [st EXCEPT !.raised = TRUE]
            ELSE [st EXCEPT !.domains = ren.domains,
                            !.classifiers = Append(Append(@, name), name)]]

\* mutant: a rejected rule takes the first hit off the list
Outcome_RejectConsumes(name, st, sat, ren) ==
    [satisfied |-> sat.res.status = "ok" /\ sat.res.value,
     st |-> IF sat.res.status # "ok" THEN [st EXCEPT !.raised = TRUE]
            ELSE IF ~sat.res.value
                 THEN [st EXCEPT !.domains = SubSeq(@, 2, Len(@))]
            ELSE IF ren.raised THEN [st EXCEPT !.raised = TRUE]
            ELSE [st EXCEPT !.domains = ren.domains,
                            !.classifiers = Append(@, name)]]


\* what "if satisfied_by: rename_domains; classifiers.append(node)" leaves,
\* given the outcomes sat of satisfied_by and ren of rename_domains
Outcome(name, st, sat, ren) ==
    [satisfied |-> sat.res.status = "ok" /\ sat.res.value,
     st |-> IF sat.res.status # "ok" THEN [st EXCEPT !.raised = TRUE]
            ELSE IF ~sat.res.value THEN st
            ELSE IF ren.raised THEN [st EXCEPT !.raised = TRUE]
            ELSE [st EXCEPT !.domains = ren.domains,
                            !.classifiers = Append(@, name)]]

\* satisfied_by on one node, then rename_domains and append when it holds
TestRule(rule, name, level, st, sat) ==
    Outcome(name, [st EXCEPT !.log = Append(@, LogEntry(name, level, sat))],
            sat, rename_domains(rule, st.domains))

TestNode(rules, name, level, st) ==
    TestRule(RuleOf(rules, name), name, level, st,
             satisfied_by(RuleOf(rules, name), st.domains))

\* the break after a plain name of a list: "if satisfied_by: ...; break"
\* mutant: the loop goes on after a name is accepted
BreakOnName_NoBreak(t) == t.st.raised

BreakOnName(t) == t.st.raised \/ t.satisfied

\* the loop over graph from its k-th node on: "for node in graph" when graph
\* is a list, "for node, children in graph.items()" when it is a dict
RECURSIVE _traverse_graph(_, _, _, _, _)
_traverse_graph(graph, k, rules, level, st) ==
    IF graph.kind = "list"
    THEN IF k > Len(graph.nodes) THEN st
         ELSE IF graph.nodes[k].kind = "dict"
              THEN LET r == _traverse_graph(graph.nodes[k], 1, rules, level, st)
                   IN  IF r.raised THEN r
                       ELSE IF r.classifiers # << >> THEN r
                       ELSE _traverse_graph(graph, k + 1, rules, level, r)
              ELSE LET t == TestNode(rules, graph.nodes[k].title, level, st)
                   IN  IF BreakOnName(t) THEN t.st
                       ELSE _traverse_graph(graph, k + 1, rules, level, t.st)
    ELSE IF k > Len(graph.items) THEN st
         ELSE LET t == TestNode(rules, graph.items[k].title, level, st)
              IN  IF t.st.raised THEN t.st
                  ELSE IF t.satisfied
                       THEN _traverse_graph(graph.items[k].children, 1, rules,
                                            graph.items[k].title, t.st)
                       ELSE _traverse_graph(graph, k + 1, rules, level, t.st)

\* RuleGraph.classify(domains)
classify(rg, ds) ==
    _traverse_graph(rg.graph, 1, rg.rules, "",
                    [classifiers |-> << >>, domains |-> ds,
                     raised |-> FALSE, log |-> << >>])

\* ------------------------------------------------------------------------
\* Inputs of the classifier: rule graphs (RuleGraph.from_dict) and hit lists
\* ------------------------------------------------------------------------
MaxDomains == 3

Name(title) == [kind |-> "name", title |-> title]
List(nodes) == [kind |-> "list", nodes |-> nodes]
Dict(items) == [kind |-> "dict", items |-> items]
Item(title, children) == [title |-> title, children |-> children]

\* Rule.__init__
Rule(name, rename, doms, filters, evaluator) ==
    [name |-> name, rename |-> rename, domains |-> doms,
     filters |-> filters, evaluator |-> evaluator]

Rules ==
    { Rule("Hybrid", {}, << "KS", "A" >>, {},
           << "0", " ", "and", " ", "1" >>),
      Rule("PKS", {}, << "KS" >>, {}, << "0" >>),
      Rule("multi-modular", {}, << "KS", "KS" >>,
           { << "KS", {"PKS_KS", "PKS"} >> },
           << "0", " ", "and", " ", "1" >>),
      Rule("trans-AT", {}, << "KS", "AT" >>, {},
           << "0", " ", "and", " ", "not", " ", "1" >>),
      Rule("HR-PKS", {}, << "ER", "KR" >>, {},
           << "0", " ", "and", " ", "1" >>),
      Rule("PR-PKS", {}, << "ER", "KR" >>, {},
           << "0", " ", "or", " ", "1" >>),
      Rule("NRPS", { << "ACP", "T" >> }, << "A" >>, {}, << "0" >>),
      Rule("non-PKS", {}, << "KS" >>, {}, << "not", " ", "0" >>) }

RuleGraphs ==
    { \* ["Hybrid", {"PKS": ["HR-PKS", "PR-PKS"]}, "NRPS"]
      [rules |-> Rules,
       graph |-> List(<< Name("Hybrid"),
                         Dict(<< Item("PKS", List(<< Name("HR-PKS"),
                                                     Name("PR-PKS") >>)) >>),
                         Name("NRPS") >>)],
      \* [{"PKS": [{"multi-modular": ["HR-PKS"]}, "PR-PKS"]}, "NRPS"]
      [rules |-> Rules,
       graph |-> List(<< Dict(<< Item("PKS",
                                      List(<< Dict(<< Item("multi-modular",
                                                           List(<< Name("HR-PKS") >>)) >>),
                                              Name("PR-PKS") >>)) >>),
                         Name("NRPS") >>)],
      \* {"PKS": ["HR-PKS", "PR-PKS"], "NRPS": []}
      [rules |-> Rules,
       graph |-> Dict(<< Item("PKS", List(<< Name("HR-PKS"),
                                             Name("PR-PKS") >>)),
                         Item("NRPS", List(<< >>)) >>)],
      \* ["multi-modular", "trans-AT", "PKS", "NRPS"]
      [rules |-> Rules,
       graph |-> List(<< Name("multi-modular"), Name("trans-AT"),
                         Name("PKS"), Name("NRPS") >>)],
      \* ["Hybrid", {"non-PKS": ["NRPS", "PR-PKS"]}]
      [rules |-> Rules,
       graph |-> List(<< Name("Hybrid"),
                         Dict(<< Item("non-PKS", List(<< Name("NRPS"),
                                                         Name("PR-PKS") >>)) >>)
                      >>)] }

\* Domain(type=..., domain=..., start=..., end=...)
Domain(ident, type, family, start, end) ==
    [id |-> ident, type |-> type, domain |-> family,
     start |-> start, end |-> end, evalue |-> 0]

DomainPool ==
    { << "KS", "PKS_KS", 0, 100 >>, << "KS", "CLF", 0, 100 >>,
      << "AT", "PKS_AT", 100, 200 >>, << "ER", "PKS_ER", 200, 300 >>,
      << "KR", "KR", 300, 400 >>, << "A", "A_NRPS", 400, 500 >>,
      << "ACP", "PP-binding", 500, 560 >> }

DomainLists ==
    UNION { { [i \in 1..n |-> Domain(i, f[i][1], f[i][2], f[i][3], f[i][4])]
              : f \in [1..n -> DomainPool] } : n \in 0..MaxDomains }

\* ------------------------------------------------------------------------
\* Inputs of Rule.evaluate: rules read from a rule file, whose evaluator
\* refers to the requirements by position, and condition lists of the
\* rule's length
\* ------------------------------------------------------------------------
MaxRequirements == 11

\* the positions the evaluators refer to: the lowest and the highest of a
\* rule with n requirements, and the first one past them
Positions(n) == { p \in {0, 1, n - 2, n - 1, n} : p >= 0 }

Forms == {"p", "not p", "p and q", "p or q", "p and not q"}

Expressions(n) ==
    { [form |-> f, p |-> p, q |-> q] :
        f \in Forms, p \in Positions(n), q \in Positions(n) }

\* the evaluator string of an expression
Render(e) ==
    IF e.form = "p" THEN Str(e.p)
    ELSE IF e.form = "not p" THEN << "not", " " >> \o Str(e.p)
    ELSE IF e.form = "p and q"
         THEN Str(e.p) \o << " ", "and", " " >> \o Str(e.q)
    ELSE IF e.form = "p or q"
         THEN Str(e.p) \o << " ", "or", " " >> \o Str(e.q)
    ELSE Str(e.p) \o << " ", "and", " ", "not", " " >> \o Str(e.q)

\* the positions an expression refers to
Refs(e) == IF e.form \in {"p", "not p"} THEN {e.p} ELSE {e.p, e.q}

\* a rule file with one rule of n requirements
RuleDict(n, e) ==
    [rules |-> << [name |-> "rule", rename |-> {},
                   domains |-> [i \in 1..n |-> "KS"], filters |-> {},
                   evaluator |-> Render(e)] >>,
     graph |-> List(<< Name("rule") >>)]

RuleDicts ==
    UNION { { RuleDict(n, e) : e \in Expressions(n) }
            : n \in 1..MaxRequirements }

\* RuleGraph.from_dict(d)
from_dict(d) ==
    [rules |-> { Rule(d.rules[k].name, d.rules[k].rename, d.rules[k].domains,
                      d.rules[k].filters, d.rules[k].evaluator)
                 : k \in 1..Len(d.rules) },
     graph |-> d.graph]

\* the outcomes of satisfied_by's tests for a rule with n requirements
ConditionLists(n) ==
    { [i \in 1..n |-> ((i - 1) \in S) # bg] :
        S \in SUBSET (Positions(n) \cap (0..(n - 1))), bg \in BOOLEAN }

\* ------------------------------------------------------------------------
\* Batches of queries: ResultParser.build_synthases and new_synthase, and
\* classify(synthases, rule_path)
\* ------------------------------------------------------------------------
MaxQueries == 2

\* binding the arguments of a call of classify(synthases, rule_path)
classify_call(nargs) ==
    IF nargs # 2 THEN Raise("TypeError") ELSE Ok("classified")

\* the try statement of new_synthase: only ValueError is caught
try_classify(made) ==
    LET c == classify_call(1)
    IN  IF c.status \in {"ok", "ValueError"} THEN Ok(made) ELSE Raise(c.status)

\* ResultParser.new_synthase(name, domains)
new_synthase(name, ds) ==
    LET once == filter_domains(ds)
    IN  IF once.raised THEN Raise("ValueError")
        ELSE IF once.result = << >> THEN Ok([header |-> name, none |-> TRUE])
        ELSE IF filter_domains(once.result).raised THEN Raise("ValueError")
        ELSE try_classify([header |-> name, none |-> FALSE])

\* the list comprehension of build_synthases, over results.items()
RECURSIVE BuildFrom(_, _, _)
BuildFrom(results, k, made) ==
    IF k > Len(results) THEN Ok(made)
    ELSE LET s == new_synthase(k, results[k])
         IN  IF s.status # "ok" THEN Raise(s.status)
             ELSE BuildFrom(results, k + 1, Append(made, s.value))

build_synthases(results) == BuildFrom(results, 1, << >>)

\* the for loop of classify(synthases, rule_path): rg.classify for each
\* synthase in turn, with no try statement around it
RECURSIVE ClassifyFrom(_, _, _, _)
ClassifyFrom(graph, synthases, k, etc) ==
    IF k > Len(synthases) THEN Ok(etc)
    ELSE LET r == classify(graph, synthases[k])
         IN  IF r.raised THEN Raise("Exception")
             ELSE ClassifyFrom(graph, synthases, k + 1,
                               Append(etc, [header |-> k,
                                            classification |-> r.classifiers]))

classify_all(graph, synthases) == ClassifyFrom(graph, synthases, 1, << >>)

\* the queries of a parsed table: hit lists of one query each
QueryPool ==
    { << >>,
      << parse_row(Shape("PP-binding", 30, 40, 0), 1) >>,
      << parse_row(Shape("PP-binding", 0, 60, 0), 1) >>,
      << parse_row(Shape("PP-binding", 0, 30, 0), 1),
         parse_row(Shape("PP-binding", 40, 70, 0), 2),
         parse_row(Shape("PP-binding", 200, 230, 0), 3),
         parse_row(Shape("PP-binding", 240, 270, 0), 4) >> }

\* the hits of the synthases handed to classify
SynthasePool ==
    { << >>,
      << Domain(1, "KS", "PKS_KS", 0, 100) >>,
      << Domain(1, "KS", "PKS_KS", 0, 100), Domain(2, "ER", "PKS_ER", 200, 300) >>,
      << Domain(1, "A", "A_NRPS", 400, 500),
         Domain(2, "ACP", "PP-binding", 500, 560) >> }

Batches(pool) ==
    UNION { [1..n -> pool] : n \in 0..MaxQueries }


\* ------------------------------------------------------------------------
\* ncbi.check(cdsid) and ncbi.retrieve(cdsid, max_retries, delay)
\* ------------------------------------------------------------------------
MaxChecks == 4

\* what requests.get can bring back: the status code of the job, and
\* whether the text ends with the header line only
Response(code, empty) == [code |-> code, empty |-> empty]

Responses ==
    { Response(c, FALSE) : c \in {"0", "1", "2", "3", "4", "5"} }
        \cup { Response("0", TRUE) }

NoResponse == Response("", FALSE)

\* check(cdsid), for the response that requests.get returned
check(response) ==
    IF response.code = "0"
    THEN IF response.empty THEN Raise("ValueError") ELSE Ok(response)
    ELSE IF response.code = "3" THEN Ok(NoResponse)
    ELSE Raise("ValueError")

\* the first statement of retrieve
retrieve_enter(p) ==
    IF p.delay < 10
    THEN [p EXCEPT !.status = "raised", !.error = "ValueError"]
    ELSE [p EXCEPT !.status = "polling"]

\* one turn of the while loop of retrieve, and the statements after the
\* loop when the turn leaves it (the waiting changes no value but the clock)
retrieve_turn(p, got) ==
    LET c == check(got)
    IN  IF c.status # "ok"
        THEN [p EXCEPT !.checks = @ + 1, !.last = got.code,
                       !.status = "raised", !.error = c.status]
        ELSE IF c.value # NoResponse
        THEN [p EXCEPT !.checks = @ + 1, !.last = got.code,
                       !.status = "returned", !.response = c.value]
        ELSE IF p.max_retries > 0 /\ p.retries = p.max_retries
        THEN [p EXCEPT !.checks = @ + 1, !.last = got.code,
                       !.status = "raised", !.error = "ValueError"]
        ELSE [p EXCEPT !.checks = @ + 1, !.last = got.code,
                       !.retries = @ + 1]

\* the arguments of the calls
RetryLimits == {-1, 0, 1, 2}

Delays == {0, 10, 20}


\* ------------------------------------------------------------------------
\* rename_NRPS_domains(synthase)
\* ------------------------------------------------------------------------
MaxModuleHits == 4

\* replace = {"ACP": "T", "TR": "R"}
replace == { << "ACP", "T" >>, << "TR", "R" >> }

\* mutant: every synthase starts in the NRPS module
initial_module_NRPS(type) == "NRPS"

\* module = "NRPS" if synthase.type == "NRPS" else "PKS"
initial_module(type) == IF type = "NRPS" THEN "NRPS" ELSE "PKS"

\* the module a hit of this type is in, given the module before it
module_at(type, module) ==
    IF type \in {"A", "C"} THEN "NRPS"
    ELSE IF type \in {"KS", "AT"} THEN "PKS"
    ELSE module

\* the for loop: renamed holds the hits passed so far, as the loop left them
RECURSIVE RenameLoop(_, _, _, _)
RenameLoop(ds, k, module, renamed) ==
    IF k > Len(ds) THEN renamed
    ELSE IF module_at(ds[k].type, module) = "NRPS" /\ ds[k].type \in Keys(replace)
    THEN RenameLoop(ds, k + 1, "NRPS",
                    Append(renamed, [id |-> ds[k].id,
                                     type |-> Get(replace, ds[k].type)]))
    ELSE RenameLoop(ds, k + 1, module_at(ds[k].type, module),
                    Append(renamed, ds[k]))

rename_NRPS_domains(s) ==
    IF s.type \notin {"Hybrid", "NRPS"}
    THEN [raised |-> TRUE, domains |-> s.domains]
    ELSE [raised |-> FALSE,
          domains |-> RenameLoop(s.domains, 1, initial_module(s.type), << >>)]

\* the types of the hits of a synthase, and the types of synthases
ModuleTypes == {"KS", "AT", "KR", "ACP", "C", "A", "TR"}

SynthaseTypes == {"Hybrid", "NRPS", "PKS"}

Architectures ==
    UNION { { [i \in 1..n |-> [id |-> i, type |-> f[i]]]
              : f \in [1..n -> ModuleTypes] } : n \in 0..MaxModuleHits }


\* ------------------------------------------------------------------------
\* ResultParser.__init__(domains) and ResultParser.set_domains(domains)
\*
\* A family list is an object: the heap holds the lists, and a domains dict
\* holds, for each type, the reference of its list.
\* ------------------------------------------------------------------------
MaxParsers == 2

\* the lists of the class attribute default_domains, for two of its types
DefaultHeap ==
    << << "PKS_KS", "PKS", "CLF", "KAS_I_II", "CHS_like", "KAS_III" >>,
       << "PKS_AT", "Acyl_transf_1" >> >>

\* ResultParser.default_domains: the type and the reference of its list
DefaultRefs == { << "KS", 1 >>, << "AT", 2 >> }

\* dict.copy(): a new dict with the same keys and the same values
dict_copy(d) == { << p[1], p[2] >> : p \in d }

InList(x, list) == \E n \in 1..Len(list) : list[n] = x

\* mutant: the new families are picked before any of them is appended
Extend_Eager(list, value, n) ==
    list \o SelectSeq([m \in 1..Len(value) |-> value[m][2]],
                      LAMBDA d : ~InList(d, list))

\* list.extend(d for d in value if d not in list): the generator tests a
\* family when extend asks for it, the families before it already appended
RECURSIVE Extend(_, _, _)
Extend(list, value, n) ==
    IF n > Len(value) THEN list
    ELSE IF InList(value[n][2], list) THEN Extend(list, value, n + 1)
    ELSE Extend(Append(list, value[n][2]), value, n + 1)

\* the for loop of set_domains over domains.items()
RECURSIVE SetItems(_, _, _, _)
SetItems(h, table, items, k) ==
    IF k > Len(items) THEN [raised |-> FALSE, error |-> "", heap |-> h]
    ELSE IF items[k][1] \notin Keys(table)
    THEN [raised |-> TRUE, error |-> "ValueError", heap |-> h]
    ELSE IF items[k][2].kind \notin {"tuple", "list"}
    THEN [raised |-> TRUE, error |-> "TypeError", heap |-> h]
    ELSE IF \E n \in 1..Len(items[k][2].items) : items[k][2].items[n][1] # "str"
    THEN [raised |-> TRUE, error |-> "TypeError", heap |-> h]
    ELSE SetItems([h EXCEPT ![Get(table, items[k][1])] =
                                Extend(@, items[k][2].items, 1)],
                  table, items, k + 1)

\* ResultParser.set_domains(domains), on the domains dict of an instance
set_domains(h, table, arg) ==
    IF arg.kind # "dict"
    THEN [raised |-> TRUE, error |-> "TypeError", heap |-> h]
    ELSE SetItems(h, table, arg.items, 1)

\* ResultParser.__init__(domains)
new_parser(h, arg) ==
    IF arg.items = << >>
    THEN [raised |-> FALSE, error |-> "", heap |-> h]
    ELSE set_domains(h, dict_copy(DefaultRefs), arg)

\* the arguments of the calls: an element is a str or an int, a value is a
\* list, a tuple or a str, and domains is a dict or a list
Element(kind, v) == << kind, v >>

Value(kind, items) == [kind |-> kind, items |-> items]

Values ==
    { Value("list", << Element("str", "PKS_KS"), Element("str", "test_KS") >>),
      Value("list", << Element("str", "test_AT"), Element("str", "test_AT") >>),
      Value("tuple", << Element("str", "test_AT"), Element("str", "test_KS") >>),
      Value("str", << >>),
      Value("list", << Element("str", "asd"), Element("int", "2") >>) }

ArgKeys == {"KS", "AT", "invalid_key"}

Arguments ==
    { Value("dict", << >>),
      Value("list", << Element("str", "list") >>) }
      \cup { Value("dict", << << k, v >> >>) : k \in ArgKeys, v \in Values }
      \cup { Value("dict", << << "AT", v >>, << k, w >> >>) :
                k \in {"KS", "invalid_key"}, v \in Values, w \in Values }


\* ------------------------------------------------------------------------
\* State
\* ------------------------------------------------------------------------
VARIABLES
    pc,         \* what has been called so far
    input,      \* the hit list as first handed over
    domains,    \* the caller's hit list (sorted and changed in place)
    threshold,  \* threshold of the last group_overlapping_hits call
    groups,     \* groups yielded by the last grouping
    first,      \* record of the first filter_domains call
    second,     \* record of filter_domains applied to its own result
    rg,         \* the RuleGraph
    run1,       \* record of the first RuleGraph.classify call
    run2,       \* record of the second RuleGraph.classify call
    ruledict,   \* the dict handed to RuleGraph.from_dict
    conds,      \* the conditions handed to Rule.evaluate
    outcome,    \* what Rule.evaluate returned or raised
    batch,      \* a batch of queries being processed, and what it returned
    poll,       \* a retrieve() call polling for CD-Search results
    synthase,   \* a Synthase handed to rename_NRPS_domains
    heap,       \* the family lists of ResultParser, by reference
    instances,  \* the ResultParser instances: their domains dicts
    call        \* the last ResultParser() or set_domains call

vars == << pc, input, domains, threshold, groups, first, second,
           rg, run1, run2, ruledict, conds, outcome,
           batch, poll, synthase, heap, instances, call >>

evalVars == << ruledict, conds, outcome >>

coreVars == << pc, input, domains, threshold, groups, first, second,
               rg, run1, run2, evalVars >>

parserVars == << heap, instances, call >>

extVars == << batch, poll, synthase, parserVars >>

NoDict == [rules |-> << >>, graph |-> << >>]

NoOutcome == [status |-> "", value |-> FALSE]

NoCall == [groups |-> << >>, resolved |-> << >>, merged |-> << >>,
           raised |-> FALSE, result |-> << >>]

NoRun == [classifiers |-> << >>, domains |-> << >>,
          raised |-> FALSE, log |-> << >>]

NoGraph == [rules |-> {}, graph |-> List(<< >>)]

NoBatch == [op |-> "", queries |-> << >>, graph |-> NoGraph,
            result |-> NoOutcome]

NoPoll == [status |-> ""]

NoSynthase == [type |-> ""]

NoSetCall == [op |-> "", instance |-> 0, arg |-> << >>, raised |-> FALSE,
              error |-> "", before |-> << >>]

InitExt ==
    /\ batch = NoBatch
    /\ poll = NoPoll
    /\ synthase = NoSynthase
    /\ heap = << >>
    /\ instances = << >>
    /\ call = NoSetCall

\* nothing parsed, nothing loaded
InitCore ==
    /\ pc = "idle"
    /\ input = << >>
    /\ domains = << >>
    /\ threshold = 2
    /\ groups = << >>
    /\ first = NoCall
    /\ second = NoCall
    /\ rg = NoGraph
    /\ run1 = NoRun
    /\ run2 = NoRun
    /\ ruledict = NoDict
    /\ conds = << >>
    /\ outcome = NoOutcome


\* ResultParser: a parsed table row list for one query
Init ==
    /\ pc = "parsed"
    /\ input \in HitLists
    /\ domains = input
    /\ threshold = 2
    /\ groups = << >>
    /\ first = NoCall
    /\ second = NoCall
    /\ rg = NoGraph
    /\ run1 = NoRun
    /\ run2 = NoRun
    /\ ruledict = NoDict
    /\ conds = << >>
    /\ outcome = NoOutcome
    /\ InitExt

\* list(group_overlapping_hits(domains, threshold))
GroupOverlappingHits ==
    /\ pc = "parsed"
    /\ \E t \in Thresholds :
          /\ threshold' = t
          /\ groups' = group_overlapping_hits(domains, t)
    /\ domains' = SortByStart(domains)
    /\ pc' = "grouped"
    /\ UNCHANGED << input, first, second, rg, run1, run2, evalVars, extVars >>

\* rp.filter_domains(domains)
FilterDomains ==
    /\ pc = "parsed"
    /\ LET r == filter_domains(domains)
       IN  /\ first' = r
           /\ groups' = r.groups
           /\ domains' = AfterCall(domains, r.resolved, r.merged)
    /\ threshold' = 2
    /\ pc' = "filtered"
    /\ UNCHANGED << input, second, rg, run1, run2, evalVars, extVars >>

\* rp.filter_domains(result of the first call), as new_synthase does
FilterDomainsAgain ==
    /\ pc = "filtered"
    /\ ~first.raised
    /\ LET r == filter_domains(first.result)
       IN  /\ second' = r
           /\ groups' = r.groups
    /\ pc' = "refiltered"
    /\ UNCHANGED << input, domains, threshold, first, rg, run1, run2, evalVars, extVars >>

Next ==
    \/ GroupOverlappingHits
    \/ FilterDomains
    \/ FilterDomainsAgain

Spec == Init /\ [][Next]_vars

\* RuleGraph and a hit list to classify
InitClassify ==
    /\ pc = "loaded"
    /\ rg \in RuleGraphs
    /\ input \in DomainLists
    /\ domains = input
    /\ threshold = 2
    /\ groups = << >>
    /\ first = NoCall
    /\ second = NoCall
    /\ run1 = NoRun
    /\ run2 = NoRun
    /\ ruledict = NoDict
    /\ conds = << >>
    /\ outcome = NoOutcome
    /\ InitExt

\* rg.classify(domains)
Classify ==
    /\ pc = "loaded"
    /\ LET r == classify(rg, domains)
       IN  /\ run1' = r
           /\ domains' = r.domains
    /\ pc' = "classified"
    /\ UNCHANGED << input, threshold, groups, first, second, rg, run2, evalVars, extVars >>

\* rg.classify(domains) once more on the hits the first call left
ClassifyAgain ==
    /\ pc = "classified"
    /\ LET r == classify(rg, domains)
       IN  /\ run2' = r
           /\ domains' = r.domains
    /\ pc' = "classified twice"
    /\ UNCHANGED << input, threshold, groups, first, second, rg, run1, evalVars, extVars >>

NextClassify ==
    \/ Classify
    \/ ClassifyAgain

SpecClassify == InitClassify /\ [][NextClassify]_vars

\* a rule file as json.load returns it
InitEvaluate ==
    /\ pc = "read"
    /\ ruledict \in RuleDicts
    /\ rg = NoGraph
    /\ input = << >>
    /\ domains = << >>
    /\ threshold = 2
    /\ groups = << >>
    /\ first = NoCall
    /\ second = NoCall
    /\ run1 = NoRun
    /\ run2 = NoRun
    /\ conds = << >>
    /\ outcome = NoOutcome
    /\ InitExt

\* RuleGraph.from_dict(d)
FromDict ==
    /\ pc = "read"
    /\ rg' = from_dict(ruledict)
    /\ pc' = "from_dict"
    /\ UNCHANGED << input, domains, threshold, groups, first, second,
                    run1, run2, ruledict, conds, outcome, extVars >>

\* rule.evaluate(conditions), for the rule of the graph
Evaluate ==
    /\ pc = "from_dict"
    /\ \E rule \in rg.rules :
       \E c \in ConditionLists(Len(rule.domains)) :
          /\ conds' = c
          /\ outcome' = evaluate(rule, c)
    /\ pc' = "evaluated"
    /\ UNCHANGED << input, domains, threshold, groups, first, second,
                    rg, run1, run2, ruledict, extVars >>

NextEvaluate ==
    \/ FromDict
    \/ Evaluate

SpecEvaluate == InitEvaluate /\ [][NextEvaluate]_vars

\* a parsed table row list of hits that lie apart
InitFragments ==
    /\ pc = "parsed"
    /\ input \in FragmentLists
    /\ domains = input
    /\ threshold = 2
    /\ groups = << >>
    /\ first = NoCall
    /\ second = NoCall
    /\ rg = NoGraph
    /\ run1 = NoRun
    /\ run2 = NoRun
    /\ ruledict = NoDict
    /\ conds = << >>
    /\ outcome = NoOutcome
    /\ InitExt

SpecFragments == InitFragments /\ [][Next]_vars

\* the hit-filtering and the classifying entry points together
\* a batch of queries: a parsed table, or synthases and a rule file
InitBatch ==
    /\ InitCore
    /\ \/ \E q \in Batches(QueryPool) :
             batch = [op |-> "build_synthases", queries |-> q,
                      graph |-> NoGraph, result |-> NoOutcome]
       \/ \E q \in Batches(SynthasePool), g \in RuleGraphs :
             batch = [op |-> "classify", queries |-> q,
                      graph |-> g, result |-> NoOutcome]
    /\ poll = NoPoll
    /\ synthase = NoSynthase
    /\ heap = << >>
    /\ instances = << >>
    /\ call = NoSetCall

\* rp.build_synthases(results)
BuildSynthases ==
    /\ batch.op = "build_synthases"
    /\ batch.result = NoOutcome
    /\ batch' = [batch EXCEPT !.result = build_synthases(batch.queries)]
    /\ UNCHANGED << coreVars, poll, synthase, parserVars >>

\* classify(synthases, rule_path)
ClassifyAll ==
    /\ batch.op = "classify"
    /\ batch.result = NoOutcome
    /\ batch' = [batch EXCEPT
                    !.result = classify_all(batch.graph, batch.queries)]
    /\ UNCHANGED << coreVars, poll, synthase, parserVars >>

NextBatch ==
    \/ BuildSynthases
    \/ ClassifyAll

SpecBatch == InitBatch /\ [][NextBatch]_vars


\* retrieve(cdsid, max_retries, delay) has just been called
InitRetrieve ==
    /\ InitCore
    /\ batch = NoBatch
    /\ \E n \in RetryLimits, d \in Delays :
          poll = [status |-> "called", max_retries |-> n, delay |-> d,
                  retries |-> 0, checks |-> 0, last |-> "",
                  error |-> "", response |-> NoResponse]
    /\ synthase = NoSynthase
    /\ heap = << >>
    /\ instances = << >>
    /\ call = NoSetCall

\* the test of delay
RetrieveEnter ==
    /\ poll.status = "called"
    /\ poll' = retrieve_enter(poll)
    /\ UNCHANGED << coreVars, batch, synthase, parserVars >>

\* one turn of the loop; the server answers what it likes
RetrieveTurn ==
    /\ poll.status = "polling"
    /\ poll.checks < MaxChecks
    /\ \E got \in Responses : poll' = retrieve_turn(poll, got)
    /\ UNCHANGED << coreVars, batch, synthase, parserVars >>

NextRetrieve ==
    \/ RetrieveEnter
    \/ RetrieveTurn

SpecRetrieve == InitRetrieve /\ [][NextRetrieve]_vars


\* a Synthase with its type assigned, before its hits are renamed
InitRename ==
    /\ InitCore
    /\ batch = NoBatch
    /\ poll = NoPoll
    /\ \E t \in SynthaseTypes, a \in Architectures :
          synthase = [type |-> t, made |-> a, domains |-> a,
                      status |-> "made", once |-> << >>]
    /\ heap = << >>
    /\ instances = << >>
    /\ call = NoSetCall

\* rename_NRPS_domains(synthase)
RenameNRPSDomains ==
    /\ synthase.type # ""
    /\ synthase.status = "made"
    /\ LET r == rename_NRPS_domains(synthase)
       IN  synthase' = [synthase EXCEPT
                           !.domains = r.domains,
                           !.once = r.domains,
                           !.status = IF r.raised THEN "raised" ELSE "renamed"]
    /\ UNCHANGED << coreVars, batch, poll, parserVars >>

\* rename_NRPS_domains(synthase) once more
RenameNRPSDomainsAgain ==
    /\ synthase.type # ""
    /\ synthase.status = "renamed"
    /\ LET r == rename_NRPS_domains(synthase)
       IN  synthase' = [synthase EXCEPT
                           !.domains = r.domains,
                           !.status = IF r.raised THEN "raised"
                                      ELSE "renamed twice"]
    /\ UNCHANGED << coreVars, batch, poll, parserVars >>

NextRename ==
    \/ RenameNRPSDomains
    \/ RenameNRPSDomainsAgain

SpecRename == InitRename /\ [][NextRename]_vars


\* the class ResultParser has been defined; no instance yet
InitParser ==
    /\ InitCore
    /\ batch = NoBatch
    /\ poll = NoPoll
    /\ synthase = NoSynthase
    /\ heap = DefaultHeap
    /\ instances = << >>
    /\ call = NoSetCall

\* ResultParser(domains): when __init__ raises, no instance comes to be
NewParser ==
    /\ heap # << >>
    /\ Len(instances) < MaxParsers
    /\ \E arg \in Arguments :
          LET r == new_parser(heap, arg)
          IN  /\ heap' = r.heap
              /\ instances' = IF r.raised THEN instances
                              ELSE Append(instances, dict_copy(DefaultRefs))
              /\ call' = [op |-> "ResultParser", instance |-> Len(instances) + 1,
                          arg |-> arg, raised |-> r.raised, error |-> r.error,
                          before |-> heap]
    /\ UNCHANGED << coreVars, batch, poll, synthase >>

\* rp.set_domains(domains) on one of the instances
SetDomains ==
    /\ heap # << >>
    /\ \E i \in 1..Len(instances), arg \in Arguments :
          LET r == set_domains(heap, instances[i], arg)
          IN  /\ heap' = r.heap
              /\ call' = [op |-> "set_domains", instance |-> i,
                          arg |-> arg, raised |-> r.raised, error |-> r.error,
                          before |-> heap]
    /\ UNCHANGED << coreVars, batch, poll, synthase, instances >>

NextParser ==
    \/ NewParser
    \/ SetDomains

SpecParser == InitParser /\ [][NextParser]_vars


InitAll == Init \/ InitClassify

NextAll ==
    \/ Next
    \/ NextClassify

SpecAll == InitAll /\ [][NextAll]_vars

\* ------------------------------------------------------------------------
\* Properties
\* ------------------------------------------------------------------------
Member(g, ident) == g[CHOOSE m \in 1..Len(g) : g[m].id = ident]

\* the hit sorted(group, key=evalue) puts first
BestRanked(g) ==
    g[CHOOSE m \in 1..Len(g) :
         \A n \in 1..Len(g) :
            \/ g[m].evalue < g[n].evalue
            \/ g[m].evalue = g[n].evalue /\ m <= n]

\* C1: group_overlapping_hits yields non-empty groups, every input hit is in
\* exactly one group, and the groups concatenated in yield order are the
\* input in ascending start order (hits with equal start in input order),
\* the group that ends with the last hit included.
C1_GroupsPartitionSortedInput ==
    pc = "grouped" =>
        LET flat == Flatten(groups)
        IN  /\ \A k \in 1..Len(groups) : groups[k] # << >>
            /\ Len(flat) = Len(input)
            /\ \A i \in 1..Len(input) :
                  Cardinality({ k \in 1..Len(flat) : flat[k] = input[i] }) = 1
            /\ \A k \in 1..(Len(flat) - 1) :
                  \/ flat[k].start < flat[k + 1].start
                  \/ /\ flat[k].start = flat[k + 1].start
                     /\ flat[k].id < flat[k + 1].id

\* an unsorted input whose last group has several members
C1_Witness ==
    /\ pc = "grouped"
    /\ Len(groups) >= 2
    /\ Len(groups[Len(groups)]) >= 2
    /\ \E i \in 1..(Len(input) - 1) : input[i].start > input[i + 1].start

\* C2: no two hits of the list filter_domains returns overlap by more than
\* the threshold fraction (0.2) of the smaller hit's length.
C2_NoOverlapInResult ==
    (pc = "filtered" /\ ~first.raised) =>
        \A i, j \in 1..Len(first.result) :
            i < j =>
               10 * Overlap(first.result[i], first.result[j])
                  <= 2 * Min(DomainLen(first.result[i]),
                             DomainLen(first.result[j]))

\* C5: every adjacent pair of the resolved sequence that has the same
\* family and passes detect_fragmented_domain is coalesced by the merge
\* pass: the first hit's end becomes the second's end, the second is gone.
C5_AdjacentFragmentsMerged ==
    (pc = "filtered" /\ ~first.raised) =>
        \A k \in 1..(Len(first.resolved) - 1) :
            LET one == first.resolved[k]
                two == first.resolved[k + 1]
            IN  (one.domain = two.domain /\ detect_fragmented_domain(one, two))
                => /\ one.id \in Ids(first.merged)
                   /\ Member(first.merged, one.id).end = two.end
                   /\ two.id \notin Ids(first.merged)

\* C6: filter_domains applied to its own result returns that result.
C6_FilterDomainsIdempotent ==
    pc = "refiltered" => (~second.raised /\ second.result = first.result)

\* C8: each group is resolved to one of its members, one with the lowest
\* e-value and, among those, the earliest start; there are as many resolved
\* hits as groups.
C8_OneBestRankedMemberPerGroup ==
    pc = "filtered" =>
        /\ Len(first.resolved) = Len(first.groups)
        /\ \A k \in 1..Len(first.groups) :
              LET g == first.groups[k]
                  r == first.resolved[k]
              IN  /\ r.id \in Ids(g)
                  /\ \A n \in 1..Len(g) :
                        \/ r.evalue < g[n].evalue
                        \/ r.evalue = g[n].evalue /\ r.start <= g[n].start

\* a group in which two hits with different starts tie on the e-value
C8_Witness ==
    /\ pc = "filtered"
    /\ \E k \in 1..Len(first.groups) :
          \E n \in 1..Len(first.groups[k]) :
             /\ first.groups[k][n].evalue = first.resolved[k].evalue
             /\ first.groups[k][n].start > first.resolved[k].start

\* C9: a best-ranked hit of type C with a shorter hit of type E in its group
\* is returned with type E and its own start and end; when the special rule
\* holds for no other member, the best-ranked hit is returned unchanged.
C9_EpimerizationRetyping ==
    pc = "filtered" =>
        \A k \in 1..Len(first.groups) :
            LET g    == first.groups[k]
                best == BestRanked(g)
                r    == first.resolved[k]
                fires == \E n \in 1..Len(g) :
                            /\ g[n].id # best.id
                            /\ best.type = "C"
                            /\ g[n].type = "E"
                            /\ DomainLen(g[n]) < DomainLen(best)
            IN  /\ fires => r = [best EXCEPT !.type = "E"]
                /\ ~fires => r = best

\* a representative that was retyped from C to E
C9_Witness ==
    /\ pc = "filtered"
    /\ \E k \in 1..Len(first.groups) :
          /\ first.resolved[k].type = "E"
          /\ Member(first.groups[k], first.resolved[k].id).type = "C"

\* ------------------------------------------------------------------------
\* Properties of the classifier
\* ------------------------------------------------------------------------
Range(seq) == { seq[k] : k \in 1..Len(seq) }

Titles(items) == [k \in 1..Len(items) |-> items[k].title]

\* the sibling rule names of one level of a graph, in order
Siblings(graph) ==
    IF graph.kind = "dict" THEN Titles(graph.items)
    ELSE Flatten([k \in 1..Len(graph.nodes) |->
                     IF graph.nodes[k].kind = "dict"
                     THEN Titles(graph.nodes[k].items)
                     ELSE << graph.nodes[k].title >>])

\* the nodes of one level that have children
Parents(graph) ==
    IF graph.kind = "dict" THEN graph.items
    ELSE Flatten([k \in 1..Len(graph.nodes) |->
                     IF graph.nodes[k].kind = "dict"
                     THEN graph.nodes[k].items ELSE << >>])

\* every sibling level of a graph: the parent's name and the siblings
RECURSIVE Levels(_, _)
Levels(graph, parent) ==
    { [level |-> parent, siblings |-> Siblings(graph)] }
    \cup UNION { Levels(it.children, it.title) : it \in Range(Parents(graph)) }

\* the log entries of one level, in order
Tested(log, level) == SelectSeq(log, LAMBDA e : e.level = level)

Runs12 == IF pc = "classified" THEN { run1 }
          ELSE IF pc = "classified twice" THEN { run1, run2 }
          ELSE {}

\* C3: in one traversal, at every sibling level at most one rule is
\* accepted, and no rule is tested at a level after a rule of that level
\* was satisfied.
C3_FirstMatchWins ==
    \A run \in Runs12 :
        /\ \A i, j \in 1..Len(run.log) :
              (i < j /\ run.log[i].level = run.log[j].level)
                 => ~run.log[i].satisfied
        /\ \A lv \in Levels(rg.graph, "") :
              Cardinality(Range(lv.siblings) \cap Range(run.classifiers)) <= 1

\* a path of two names whose last rule was accepted after an earlier
\* sibling failed and before a later sibling was tested
C3_Witness ==
    /\ pc = "classified"
    /\ ~run1.raised
    /\ Len(run1.classifiers) = 2
    /\ \E lv \in Levels(rg.graph, "") :
          \E k \in 2..(Len(lv.siblings) - 1) :
             /\ lv.siblings[k] \in Range(run1.classifiers)
             /\ Len(Tested(run1.log, lv.level)) = k

\* C4: for a rule that lists type X several times, the condition of the
\* j-th occurrence of X holds exactly when at least j hit objects have
\* type X and a family the rule's filter admits.
C4_OneHitPerRequirement ==
    \A run \in Runs12 :
        \A e \in Range(run.log) :
            LET rule == RuleOf(rg.rules, e.rule)
            IN  \A p \in 1..Len(rule.domains) :
                   LET X == rule.domains[p]
                       j == Cardinality({ q \in 1..p : rule.domains[q] = X })
                       n == Cardinality({ k \in 1..Len(input) :
                                             /\ input[k].type = X
                                             /\ valid_family(rule, input[k]) })
                   IN  e.conditions[p] <=> (n >= j)

\* C7: a second classify on the hits the first one left returns the same
\* label path and leaves the types of the hits as they were.
C7_ClassifyTwiceSame ==
    pc = "classified twice" =>
        /\ ~run1.raised
        /\ ~run2.raised
        /\ run2.classifiers = run1.classifiers
        /\ run2.domains = run1.domains

\* C10: at every level the traversal reaches, the siblings are tested in
\* order, a sibling is left untested only after an earlier one was
\* satisfied, and when some sibling's rule is satisfied by the hits the
\* first such sibling is on the returned path.  (Stated for the traversals
\* that return.)
C10_FirstSatisfiedSiblingAccepted ==
    (pc = "classified" /\ ~run1.raised) =>
        \A lv \in Levels(rg.graph, "") :
            (lv.level = "" \/ lv.level \in Range(run1.classifiers)) =>
                LET tested == Tested(run1.log, lv.level)
                    sat    == { k \in 1..Len(lv.siblings) :
                                   LET res == satisfied_by(
                                                RuleOf(rg.rules, lv.siblings[k]),
                                                input).res
                                   IN  res.status = "ok" /\ res.value }
                IN  /\ Len(tested) <= Len(lv.siblings)
                    /\ \A k \in 1..Len(tested) :
                          tested[k].rule = lv.siblings[k]
                    /\ Len(tested) < Len(lv.siblings)
                          => (tested # << >> /\ tested[Len(tested)].satisfied)
                    /\ sat # {} =>
                          lv.siblings[CHOOSE k \in sat : \A m \in sat : k <= m]
                             \in Range(run1.classifiers)

\* ------------------------------------------------------------------------
\* Rule.evaluate
\* ------------------------------------------------------------------------
\* the truth value of an expression whose positions stand for the conditions
Sem(e, c) ==
    IF e.form = "p" THEN c[e.p + 1]
    ELSE IF e.form = "not p" THEN ~c[e.p + 1]
    ELSE IF e.form = "p and q" THEN c[e.p + 1] /\ c[e.q + 1]
    ELSE IF e.form = "p or q" THEN c[e.p + 1] \/ c[e.q + 1]
    ELSE c[e.p + 1] /\ ~c[e.q + 1]

\* the expressions a rule's evaluator is the string of
Parsed(rule) ==
    { e \in Expressions(Len(rule.domains)) : Render(e) = rule.evaluator }

\* C11: for a rule with n requirements (n up to MaxRequirements, so 11 and
\* more) whose evaluator refers to positions 0..n-1 only, Rule.evaluate
\* returns the truth value of the expression with every position i standing
\* for the i-th condition; "10" is replaced before "1" and never corrupted.
C11_EvaluateSubstitutesByPosition ==
    pc = "evaluated" =>
        \A rule \in rg.rules : \A e \in Parsed(rule) :
            Refs(e) \subseteq 0..(Len(rule.domains) - 1)
                => outcome = Ok(Sem(e, conds))

\* evaluate was called on "10 and not 1" with eleven conditions, the one at
\* position 10 true and the one at position 1 false
C11_Witness ==
    /\ pc = "evaluated"
    /\ Len(conds) >= 11
    /\ \E rule \in rg.rules :
          rule.evaluator = << "1", "0", " ", "and", " ", "not", " ", "1" >>
    /\ conds[11] /\ ~conds[2]
    /\ outcome = Ok(TRUE)

\* ------------------------------------------------------------------------
\* Rule.rename_domains
\* ------------------------------------------------------------------------
\* position of the first hit whose type is one the rule requires (the hit
\* after which the rule's renames apply), or 0
FirstTrigger(rule, ds) ==
    LET at == { k \in 1..Len(ds) : ds[k].type \in Range(rule.domains) }
    IN  IF at = {} THEN 0 ELSE CHOOSE k \in at : \A m \in at : k <= m

\* the type hit k carries once the rule's renames are applied by position
Renamed(rule, ds, k) ==
    IF /\ FirstTrigger(rule, ds) # 0
       /\ k > FirstTrigger(rule, ds)
       /\ ds[k].type \in Keys(rule.rename)
    THEN Get(rule.rename, ds[k].type)
    ELSE ds[k].type

\* C12: when a rule with rename directives is accepted, rename_domains
\* leaves the hits before the first trigger hit alone, gives every later hit
\* of a directive's source type the target type through the end of the
\* list, and changes no hit of another type.
C12_RenameAfterTrigger ==
    pc = "classified" =>
        \A n \in 1..Len(run1.log) :
            LET rule == RuleOf(rg.rules, run1.log[n].rule)
            IN  (run1.log[n].satisfied /\ rule.rename # {})
                    => /\ ~run1.raised
                       /\ Len(run1.domains) = Len(input)
                       /\ \A k \in 1..Len(input) :
                             run1.domains[k].type = Renamed(rule, input, k)

\* ------------------------------------------------------------------------
\* group_overlapping_hits: who joins a group
\* ------------------------------------------------------------------------
\* position in the sorted list of the first member of group g
FirstAt(g) ==
    CHOOSE k \in 1..Len(domains) : domains[k].id = groups[g][1].id

InGroup(g, h) == \E m \in 1..Len(groups[g]) : groups[g][m].id = h.id

\* the overlap is at least threshold (in tenths) times the length of either
\* hit
OverlapsAt(a, b, t) ==
    LET starts == {a.start, b.start}
        ends   == {a.end, b.end}
        lo     == CHOOSE x \in starts : \A y \in starts : x >= y
        hi     == CHOOSE x \in ends : \A y \in ends : x <= y
        common == IF hi - lo > 0 THEN hi - lo ELSE 0
    IN  \E h \in {a, b} : 10 * common >= t * (h.end - h.start)

IsChain(ds, t) ==
    /\ Len(ds) = 3
    /\ OverlapsAt(ds[1], ds[2], t)
    /\ OverlapsAt(ds[2], ds[3], t)
    /\ ~OverlapsAt(ds[1], ds[3], t)

StartOrdered(ds) == \A k \in 1..(Len(ds) - 1) : ds[k].start <= ds[k + 1].start

\* C15: the hit list is sorted by start before the first group is formed,
\* and the list filter_domains returns is in non-decreasing start order,
\* whichever member of each group was chosen.
C15_SortedBeforeAndAfter ==
    /\ pc = "grouped" => (StartOrdered(domains) /\ StartOrdered(Flatten(groups)))
    /\ pc = "filtered" =>
          /\ StartOrdered(domains)
          /\ StartOrdered(Flatten(first.groups))
          /\ ~first.raised => StartOrdered(first.result)

\* an unsorted list was filtered to two hits or more, one of them chosen
\* from a group it is not the first member of
C15_Witness ==
    /\ pc = "filtered"
    /\ ~first.raised
    /\ ~StartOrdered(input)
    /\ Len(first.result) >= 2
    /\ \E g \in 1..Len(first.groups) :
          /\ first.resolved[g].id # first.groups[g][1].id
          /\ \E k \in 1..Len(first.result) :
                first.result[k].id = first.resolved[g].id

\* ------------------------------------------------------------------------
\* Short hits
\* ------------------------------------------------------------------------
\* length not above 20% of the family's profile length
Short(d) == 10 * (d.end - d.start) <= 2 * pssm_lengths[d.domain]

Returned(d) == \E k \in 1..Len(first.result) : first.result[k].id = d.id

\* C16 as claimed: a hit that is short and was not merged into a neighbour
\* still appears in the list filter_domains returns.
C16_ShortHitsKept ==
    (pc = "filtered" /\ ~first.raised) =>
        \A m \in 1..Len(first.merged) :
            Short(first.merged[m]) => Returned(first.merged[m])

\* C16 as amended: a hit left by the merge loop is returned, as the loop
\* left it, exactly when it is longer than 20% of its family's profile
\* length; a shorter one is dropped.
C16_ShortHitsDropped ==
    (pc = "filtered" /\ ~first.raised) =>
        /\ \A m \in 1..Len(first.merged) :
              Returned(first.merged[m]) <=> ~Short(first.merged[m])
        /\ \A k \in 1..Len(first.result) :
              \E m \in 1..Len(first.merged) : first.merged[m] = first.result[k]

\* a short hit was dropped and a longer one returned
C16_Witness ==
    /\ pc = "filtered"
    /\ ~first.raised
    /\ first.result # << >>
    /\ \E m \in 1..Len(first.merged) :
          Short(first.merged[m]) /\ ~Returned(first.merged[m])

\* ------------------------------------------------------------------------
\* What the operations change of a hit
\* ------------------------------------------------------------------------
Orig(before, h) == before[CHOOSE k \in 1..Len(before) : before[k].id = h.id]

\* hits after grouping, resolution and merging against the hits before:
\* start and family as before; an end that changed grew to the end of a
\* later hit of the family that is no longer in the list; a type that
\* changed was set by the adjacency rule (C to E)
FilterFrame(before, after) ==
    \A k \in 1..Len(after) :
        LET h == after[k]
            o == Orig(before, h)
        IN  /\ h.start = o.start
            /\ h.domain = o.domain
            /\ h.end # o.end =>
                  /\ h.end > o.end
                  /\ \E n \in 1..Len(before) :
                        /\ before[n].id # h.id
                        /\ before[n].domain = h.domain
                        /\ before[n].start >= o.start
                        /\ before[n].end = h.end
            /\ h.type # o.type => (o.type = "C" /\ h.type = "E")

\* hits after classification against the hits before: only the type may
\* change, and only as a rename of an accepted rule says
ClassifyFrame(before, run) ==
    /\ Len(run.domains) = Len(before)
    /\ \A k \in 1..Len(before) :
          LET h == run.domains[k]
              o == before[k]
          IN  /\ h.id = o.id /\ h.start = o.start /\ h.end = o.end
              /\ h.domain = o.domain
              /\ h.type # o.type =>
                    \E n \in 1..Len(run.log) :
                        /\ run.log[n].satisfied
                        /\ << o.type, h.type >>
                              \in RuleOf(rg.rules, run.log[n].rule).rename

\* C17: no operation changes a hit's start or family; an end changes only
\* when a merge absorbs the right neighbour, and then grows; a type changes
\* only through an adjacency rule or a rename directive.
C17_FrameOfHits ==
    /\ pc = "grouped" => domains = SortByStart(input)
    /\ pc \in {"filtered", "refiltered"} =>
          /\ Len(domains) = Len(input)
          /\ FilterFrame(input, domains)
          /\ FilterFrame(input, first.resolved)
          /\ FilterFrame(input, first.merged)
          /\ FilterFrame(input, first.result)
    /\ pc = "refiltered" =>
          /\ FilterFrame(first.result, second.merged)
          /\ FilterFrame(first.result, second.result)
    /\ pc \in {"classified", "classified twice"} =>
          ClassifyFrame(input, run1)
    /\ pc = "classified twice" => ClassifyFrame(run1.domains, run2)

\* a merge absorbed a right neighbour and extended the end of the left hit
C17_Witness ==
    /\ pc = "filtered"
    /\ \E k \in 1..Len(domains) :
          domains[k].end > Orig(input, domains[k]).end
    /\ Len(first.merged) < Len(first.resolved)

\* ------------------------------------------------------------------------
\* Classification of no hits, and of hits that match no rule
\* ------------------------------------------------------------------------
\* C18: given an empty hit list, RuleGraph.classify returns the empty path
\* and does not raise, for every rule graph, rules with a negation such as
\* "not 0" included.
C18_NoHitsEmptyPath ==
    (pc = "classified" /\ input = << >>) =>
        (~run1.raised /\ run1.classifiers = << >>)

\* the rule of that name is satisfied by the hits
Satisfies(ds, name) ==
    LET res == satisfied_by(RuleOf(rg.rules, name), ds).res
    IN  res.status = "ok" /\ res.value

\* the children of the rule of that name in the graph
Children(name) ==
    UNION { Range(lv.siblings) :
            lv \in { l \in Levels(rg.graph, "") : l.level = name } }

\* C19: when no top-level rule is satisfied by the hits, classify returns
\* the empty path, raises nothing and leaves every hit as it was; when an
\* accepted rule has no satisfied child, the returned path ends at that rule.
C19_NoMatchIsNoError ==
    pc = "classified" =>
        /\ (\A name \in Range(Siblings(rg.graph)) : ~Satisfies(input, name))
              => /\ ~run1.raised
                 /\ run1.classifiers = << >>
                 /\ run1.domains = input
        /\ ~run1.raised =>
              \A p \in 1..Len(run1.classifiers) :
                  (\A name \in Children(run1.classifiers[p]) :
                       ~Satisfies(input, name))
                     => p = Len(run1.classifiers)

\* hits that satisfy none of the top-level rules, all of them tested
C19_Witness ==
    /\ pc = "classified"
    /\ ~run1.raised
    /\ Len(input) >= 2
    /\ run1.classifiers = << >>
    /\ Len(run1.log) >= 3
    /\ run1.domains = input

\* ------------------------------------------------------------------------
\* Rules whose evaluator refers to a requirement that does not exist
\* ------------------------------------------------------------------------
\* every position the evaluator refers to has a requirement
WellReferenced(rule) ==
    \A e \in Parsed(rule) : Refs(e) \subseteq 0..(Len(rule.domains) - 1)

\* C20: a rule whose evaluator refers to a position with no requirement is
\* rejected when the rule graph is loaded: no such rule is in a graph that
\* from_dict returned, and none is ever evaluated.
C20_MalformedRuleRejectedAtLoad ==
    pc = "evaluated" => \A rule \in rg.rules : WellReferenced(rule)

\* ------------------------------------------------------------------------
\* The merge loop of filter_domains
\* ------------------------------------------------------------------------
\* C21: filter_domains returns normally for every list of hits of known
\* families, lists from which the loop removes two hits or more included.
C21_FilterDomainsReturns ==
    pc = "filtered" => ~first.raised

\* C23: a group of exactly one hit resolves to that same hit, with its
\* start, end and type as they were: no rule is tested without a partner.
C23_SingletonGroupUnchanged ==
    pc = "filtered" =>
        \A k \in 1..Len(first.groups) :
            Len(first.groups[k]) = 1 =>
                first.resolved[k] = first.groups[k][1]

\* a hit of type C alone in its group, next to another group
C23_Witness ==
    /\ pc = "filtered"
    /\ Len(first.groups) >= 2
    /\ \E k \in 1..Len(first.groups) :
          /\ Len(first.groups[k]) = 1
          /\ first.groups[k][1].type = "C"
          /\ first.resolved[k].type = "C"

\* ------------------------------------------------------------------------
\* Properties of batches
\* ------------------------------------------------------------------------
\* the query, processed alone, fails
FailsAlone(k) ==
    IF batch.op = "build_synthases"
    THEN build_synthases(<< batch.queries[k] >>).status # "ok"
    ELSE classify_all(batch.graph, << batch.queries[k] >>).status # "ok"

\* C22: once a batch has been processed, every query that does not fail by
\* itself has its result in what the batch returned, whatever happened to
\* the other queries of the batch.
C22_FailureDoesNotAbortBatch ==
    batch.result # NoOutcome =>
        \A k \in 1..Len(batch.queries) :
            ~FailsAlone(k) =>
                /\ batch.result.status = "ok"
                /\ \E m \in 1..Len(batch.result.value) :
                      batch.result.value[m].header = k

\* ------------------------------------------------------------------------
\* Properties of retrieve
\* ------------------------------------------------------------------------
\* C24: with max_retries n >= 0, retrieve makes at most n + 1 checks, and
\* after n + 1 checks that all found the job running it has raised
\* ValueError; an error status raises ValueError at that check, and a
\* completed status returns the response of that check.
C24_PollingGivesUp ==
    poll.status # "" /\ poll.max_retries >= 0 =>
        /\ poll.checks <= poll.max_retries + 1
        /\ poll.checks = poll.max_retries + 1 /\ poll.last = "3"
               => poll.status = "raised" /\ poll.error = "ValueError"
        /\ poll.last \in {"1", "2", "4", "5"}
               => poll.status = "raised" /\ poll.error = "ValueError"
        /\ poll.status = "returned"
               <=> poll.last = "0" /\ poll.response = Response("0", FALSE)

\* ------------------------------------------------------------------------
\* Properties of rename_NRPS_domains
\* ------------------------------------------------------------------------
\* the hits before hit k that open a module
Openers(ds, k) ==
    { j \in 1..(k - 1) : ds[j].type \in {"A", "C", "KS", "AT"} }

\* hit k lies in an NRPS module
InNRPSModule(type, ds, k) ==
    IF Openers(ds, k) = {} THEN type = "NRPS"
    ELSE LET j == CHOOSE j \in Openers(ds, k) :
                      \A m \in Openers(ds, k) : m <= j
         IN  ds[j].type \in {"A", "C"}

Table(i, h) ==
    [t \in Keys(instances[i]) |-> h[Get(instances[i], t)]]

NoDuplicates(list) ==
    \A m, n \in 1..Len(list) : list[m] = list[n] => m = n

\* the families the argument gives for a type, in the order given
Given(arg, t) ==
    IF \E k \in 1..Len(arg.items) : arg.items[k][1] = t
    THEN LET v == (CHOOSE k \in 1..Len(arg.items) : arg.items[k][1] = t)
         IN  [n \in 1..Len(arg.items[v][2].items) |-> arg.items[v][2].items[n][2]]
    ELSE << >>

\* the place where a family first stands in a list
FirstPlace(x, list) ==
    CHOOSE n \in 1..Len(list) : list[n] = x /\ \A m \in 1..(n - 1) : list[m] # x

\* the argument is one that set_domains is to refuse
Refused(arg) ==
    \/ arg.kind # "dict"
    \/ \E k \in 1..Len(arg.items) :
          \/ arg.items[k][1] \notin Keys(DefaultRefs)
          \/ arg.items[k][2].kind \notin {"list", "tuple"}
          \/ \E n \in 1..Len(arg.items[k][2].items) :
                arg.items[k][2].items[n][1] # "str"

\* C26: a set_domains call that returns keeps, in each type's list, the
\* earlier families in their order and appends the new ones in the order
\* given; no list ever holds a family twice; and a call with an argument
\* that is no dict, has an unknown type, or a value that is no list or
\* tuple of str, raises TypeError or ValueError.
C26_SetDomainsAppendsInOrder ==
    /\ \A r \in 1..Len(heap) : NoDuplicates(heap[r])
    /\ call.op = "set_domains" =>
          /\ call.raised <=> Refused(call.arg)
          /\ call.raised => call.error \in {"TypeError", "ValueError"}
          /\ ~call.raised =>
                \A t \in Keys(instances[call.instance]) :
                    LET old   == Table(call.instance, call.before)[t]
                        new   == Table(call.instance, heap)[t]
                        given == Given(call.arg, t)
                        added == SubSeq(new, Len(old) + 1, Len(new))
                    IN  /\ Len(new) >= Len(old)
                        /\ SubSeq(new, 1, Len(old)) = old
                        /\ \A n \in 1..Len(added) : InList(added[n], given)
                        /\ \A n \in 1..Len(given) :
                              InList(given[n], old) \/ InList(given[n], added)
                        /\ \A m, n \in 1..Len(added) :
                              m < n => FirstPlace(added[m], given)
                                           < FirstPlace(added[n], given)

\* a call that gave a new family twice for one type, and returned
C26_Witness ==
    /\ call.op = "set_domains"
    /\ ~call.raised
    /\ \E t \in Keys(instances[call.instance]) :
          /\ ~NoDuplicates(Given(call.arg, t))
          /\ Len(Table(call.instance, heap)[t])
                 > Len(Table(call.instance, call.before)[t])

\* C30: a set_domains call changes neither the lists of
\* ResultParser.default_domains nor the table of another instance, and when
\* it raises it changes nothing of its own instance either; an instance made
\* without an argument starts from the lists that the class was written with.
C30_InstancesShareNothing ==
    /\ call.op = "set_domains" =>
          /\ \A p \in DefaultRefs : heap[p[2]] = call.before[p[2]]
          /\ \A j \in 1..Len(instances) :
                j # call.instance =>
                    Table(j, heap) = Table(j, call.before)
          /\ call.raised =>
                Table(call.instance, heap) = Table(call.instance, call.before)
    /\ call.op = "ResultParser" /\ ~call.raised /\ call.arg.items = << >> =>
          \A p \in DefaultRefs :
              Table(call.instance, heap)[p[1]] = DefaultHeap[p[2]]

Renamers(run, type) ==
    { name \in Range(run.classifiers) :
          type \in Keys(RuleOf(rg.rules, name).rename) }

\* C28: classification leaves the list of hits as long as it was, every hit
\* in its place with its start, end and family; a type differs only where a
\* rule of the returned path has a rename directive for it, so that when
\* the path has no such rule the hits are as they were handed over.
C28_ClassificationFrame ==
    \A run \in Runs12 :
        /\ Len(run.domains) = Len(input)
        /\ \A k \in 1..Len(input) :
              /\ run.domains[k].id = input[k].id
              /\ run.domains[k].start = input[k].start
              /\ run.domains[k].end = input[k].end
              /\ run.domains[k].domain = input[k].domain
              /\ run.domains[k].type # input[k].type
                    => \E name \in Renamers(run, input[k].type) :
                          << input[k].type, run.domains[k].type >>
                              \in RuleOf(rg.rules, name).rename
              /\ Renamers(run, input[k].type) = {}
                    => run.domains[k] = input[k]

\* a rule with a rename directive for a hit's type was tested and rejected,
\* another rule was accepted, and the hits are as they were
C28_Witness ==
    /\ pc = "classified"
    /\ ~run1.raised
    /\ run1.classifiers # << >>
    /\ run1.domains = input
    /\ \E n \in 1..Len(run1.log) :
          /\ ~run1.log[n].satisfied
          /\ \E k \in 1..Len(input) :
                input[k].type \in Keys(RuleOf(rg.rules, run1.log[n].rule).rename)

\* ------------------------------------------------------------------------
\* Merged hits
\* ------------------------------------------------------------------------
\* the places in the resolved list of the hits whose end a merge has moved
Merges ==
    { k \in 1..Len(first.resolved) :
          /\ first.resolved[k].id \in Ids(first.merged)
          /\ Member(first.merged, first.resolved[k].id).end
                 # first.resolved[k].end }

\* C29: a hit that a merge has made spans at least 90% of the canonical
\* length of its family and passes detect_fragmented_domain with no hit, on
\* either side; it has absorbed its right neighbour and no hit more, so at
\* most half of the hits are removed by merging.
C29_MergedHitMergesOnce ==
    pc = "filtered" =>
        /\ \A k \in Merges :
              LET made == Member(first.merged, first.resolved[k].id)
              IN  /\ 10 * DomainLen(made) >= 9 * pssm_lengths[made.domain]
                  /\ k < Len(first.resolved)
                  /\ made.end = first.resolved[k + 1].end
                  /\ first.resolved[k + 1].id \notin Ids(first.merged)
                  /\ (k + 1) \notin Merges
                  /\ \A n \in 1..Len(first.resolved) :
                        /\ ~detect_fragmented_domain(made, first.resolved[n])
                        /\ ~detect_fragmented_domain(first.resolved[n], made)
        /\ 2 * Cardinality(Merges) <= Len(first.resolved)

\* a merged hit with a fragment of its family right after it, which it has
\* not absorbed
C29_Witness ==
    /\ pc = "filtered"
    /\ ~first.raised
    /\ \E k \in Merges :
          \E m \in 1..(Len(first.merged) - 1) :
              /\ first.merged[m].id = first.resolved[k].id
              /\ first.merged[m + 1].domain = first.merged[m].domain
              /\ 2 * DomainLen(first.merged[m + 1])
                     < pssm_lengths[first.merged[m].domain]

====
